---- MODULE Spec2Model ----
(***************************************************************************)
(* The deployment controllers of controller-playground.                    *)
(*                                                                         *)
(* The client-go program (client-go-project/controller/controller.go):     *)
(* Controller.Run, the informer's event handlers, the worker loop          *)
(* processNextItem and the reconcile body processItem, running against an  *)
(* API server whose objects other writers create, scale and delete.        *)
(*                                                                         *)
(* The controller-runtime program (controller-runtime-project/controller/  *)
(* controller.go): DeploymentReconciler.Reconcile, invoked by the manager  *)
(* for the requests that pass SetupWithManager's event filter, reading     *)
(* through the manager's client and writing to the same API server.        *)
(*                                                                         *)
(* Strings are sequences of tokens ("test", "a", "/"), so that the key     *)
(* functions MetaNamespaceKeyFunc and SplitMetaNamespaceKey are computed,  *)
(* not assumed to invert each other.                                       *)
(*                                                                         *)
(* k8s.io/client-go/util/workqueue and the informer are libraries whose    *)
(* code is not in the repository; they are modelled from section 4.1 of    *)
(* the specification (Add, Get, Done, AddRateLimited, Forget) and from     *)
(* the calls the controller makes on them.                                 *)
(***************************************************************************)
EXTENDS Integers, Sequences, FiniteSets, TLC

\* ------------------------------------------------------------ bounds
\* Writes other clients may make to the API server in one run.
MaxEnvEvents == 2
\* Transient accessor errors (5xx, network) the API server may answer with.
MaxErrors == 1
\* The failure counter of the rate limiter saturates here.
MaxFailures == 2
\* Worker loops in the pooled specification (Run itself starts one).
PoolSize == 2

\* --------------------------------------------------- program constants
\* processItem: "if replicas < 2" and "newReplicas := int32(2)".
DesiredReplicas == 2
\* deployment.Spec.Replicas == nil (the count is unset).
NilReplicas == -1
\* No such object on the API server (a fetch answers NotFound).
NoObject == -2
\* Run starts exactly one worker loop: "for c.processNextItem(ctx) {}".
RunWorker == 1
\* The rate limiter's delay for a first failure, in units of its base delay
\* (workqueue.DefaultTypedControllerRateLimiter).
BaseDelay == 1

\* ------------------------------------------------------------ strings
TestNamespace == <<"test">>

Min(a, b) == IF a < b THEN a ELSE b

Range(s) == {s[i] : i \in 1..Len(s)}

Count(s, x) == Cardinality({i \in 1..Len(s) : s[i] = x})

\* strings.Split(s, "/")
RECURSIVE SplitSlash(_)
SplitSlash(s) ==
    IF \A i \in 1..Len(s) : s[i] # "/"
    THEN <<s>>
    ELSE LET i == CHOOSE i \in 1..Len(s) :
                      s[i] = "/" /\ \A j \in 1..(i - 1) : s[j] # "/"
         IN  <<SubSeq(s, 1, i - 1)>> \o SplitSlash(SubSeq(s, i + 1, Len(s)))

NoKey == <<>>

\* cache.MetaObjectToName(obj).String(): "namespace/name", or "name" when
\* the namespace is empty.
ObjectNameString(obj) ==
    IF Len(obj.namespace) > 0
    THEN obj.namespace \o <<"/">> \o obj.name
    ELSE obj.name

\* cache.MetaNamespaceKeyFunc(payload): the key of an object that has
\* metadata; a cache.DeletedFinalStateUnknown tombstone has none, and the
\* function answers an error for it.
MetaNamespaceKeyFunc(payload) ==
    IF payload.tomb
    THEN [key |-> NoKey, err |-> TRUE]
    ELSE [key |-> ObjectNameString(payload.obj), err |-> FALSE]

\* cache.SplitMetaNamespaceKey: one part is a name, two parts are
\* namespace and name, anything else is an error.
SplitMetaNamespaceKey(key) ==
    LET parts == SplitSlash(key)
    IN  CASE Len(parts) = 1 ->
               [namespace |-> <<>>, name |-> parts[1], err |-> FALSE]
          [] Len(parts) = 2 ->
               [namespace |-> parts[1], name |-> parts[2], err |-> FALSE]
          [] OTHER ->
               [namespace |-> <<>>, name |-> <<>>, err |-> TRUE]

\* ------------------------------------------------------------ objects
Deployment(ns, n) == [namespace |-> ns, name |-> n]

\* Deployments of namespace "test" with names the API server accepts.
ValidObjects == {Deployment(TestNamespace, <<"a">>),
                 Deployment(TestNamespace, <<"b">>)}

\* A watch source that does not validate names can also deliver this one.
SlashObject == Deployment(TestNamespace, <<"a", "/", "b">>)

AllObjects == ValidObjects \cup {SlashObject}

\* A deployment of another namespace on the same API server.
OtherObject == Deployment(<<"other">>, <<"a">>)

\* Every deployment the API server may hold.
EveryObject == AllObjects \cup {OtherObject}

AllKeys == {ObjectNameString(o) : o \in EveryObject}

\* The replica counts other writers set: unset, just below the desired
\* count, equal to it and above it.
ReplicaValues ==
    {NilReplicas, DesiredReplicas - 1, DesiredReplicas, DesiredReplicas + 1}

Workers == 1..PoolSize

VARIABLES
    program,      \* which of the two main packages is running
    ctxDone,      \* the context passed to Run is cancelled
    runPc,        \* where Run is
    listed,       \* the informer has made its initial list
    hasSynced,    \* deploymentInformer.HasSynced()
    store,        \* the API server: replica count of each deployment
    events,       \* notifications the informer has not yet delivered
    envBudget,    \* writes other clients may still make
    errBudget,    \* transient errors the API server may still answer
    queue,        \* c.queue: the rate limiting work queue
    wpc,          \* each worker loop's position in processNextItem
    wkey,         \* the key its Get returned
    wfetch,       \* what the fetch of this invocation answered
    wobj,         \* the replica count of the fetched deployment
    wstale,       \* the fetched copy's resourceVersion is no longer current
    wcalls,       \* Update calls issued in this invocation
    wwritten,     \* the replica count of the object passed to Update
    werr,         \* processItem's result is an error
    cr,           \* the Reconcile invocation of the controller-runtime program
    trial         \* processItem and Reconcile applied to the same answers

vars == <<program, ctxDone, runPc, listed, hasSynced, store, events, envBudget,
          errBudget, queue, wpc, wkey, wfetch, wobj, wstale, wcalls,
          wwritten, werr, cr, trial>>

envVars == <<store, events, envBudget, errBudget>>
runVars == <<program, ctxDone, runPc, listed, hasSynced, trial>>
workerVars == <<wpc, wkey, wfetch, wobj, wstale, wcalls, wwritten, werr>>

\* No Reconcile invocation is in progress.
NoReconcile ==
    [pc |-> "idle", req |-> Deployment(<<>>, <<>>), fetch |-> "none",
     obj |-> NilReplicas, stale |-> FALSE, calls |-> 0,
     written |-> NilReplicas, err |-> FALSE]

\* No trial of the two reconcile functions is set up.
NoTrial ==
    [obj |-> Deployment(<<>>, <<>>),
     fetched |-> [kind |-> "none", replicas |-> NilReplicas],
     updated |-> "none",
     client |-> [done |-> FALSE, calls |-> <<>>, err |-> FALSE],
     runtime |-> [done |-> FALSE, calls |-> <<>>, err |-> FALSE]]

\* ---------------------------------------------------------- work queue
\* Add without the dirty set's check: an item is queued once per call.
AddNoDedup(q, item) ==
    IF q.shuttingDown THEN q
    ELSE IF item \in q.processing
         THEN [q EXCEPT !.dirty = @ \cup {item}]
         ELSE [q EXCEPT !.dirty = @ \cup {item},
                        !.queue = Append(@, item)]

\* workqueue.Typed.Add
Add(q, item) ==
    IF q.shuttingDown THEN q
    ELSE IF item \in q.dirty THEN q
    ELSE IF item \in q.processing
         THEN [q EXCEPT !.dirty = @ \cup {item}]
         ELSE [q EXCEPT !.dirty = @ \cup {item},
                        !.queue = Append(@, item)]

\* workqueue.Typed.Get can return: an item is queued, or the queue is
\* shutting down.
GetReady(q) == Len(q.queue) > 0 \/ q.shuttingDown

\* workqueue.Typed.Get, once it can return.
Get(q) ==
    IF Len(q.queue) = 0
    THEN [q |-> q, item |-> NoKey, shutdown |-> TRUE]
    ELSE [q |-> [q EXCEPT !.queue = Tail(@),
                          !.processing = @ \cup {Head(q.queue)},
                          !.dirty = @ \ {Head(q.queue)}],
          item |-> Head(q.queue), shutdown |-> FALSE]

\* workqueue.Typed.Done
Done(q, item) ==
    IF item \in q.dirty
    THEN [q EXCEPT !.processing = @ \ {item}, !.queue = Append(@, item)]
    ELSE [q EXCEPT !.processing = @ \ {item}]

\* The largest delay the limiter answers: the delay doubles with every
\* failure until it reaches this ceiling, from where on the failure counter
\* makes no difference and is kept at MaxFailures.
MaxDelay == BaseDelay * 2 ^ (MaxFailures - 1)

\* The limiter's When(item): base x 2^failures, capped at the ceiling.
When(q, item) == Min(BaseDelay * 2 ^ q.failures[item], MaxDelay)

\* AddRateLimited: the limiter computes the delay and counts the failure,
\* and the item waits for its delay before it is added.
AddRateLimited(q, item) ==
    IF q.shuttingDown
    THEN [q EXCEPT !.failures[item] = Min(@ + 1, MaxFailures)]
    ELSE [q EXCEPT !.failures[item] = Min(@ + 1, MaxFailures),
                   !.delay[item] = When(q, item),
                   !.waiting = @ \cup {item}]

\* Forget: the limiter stops tracking the item.
Forget(q, item) == [q EXCEPT !.failures[item] = 0]

\* NewTypedRateLimitingQueue
NewQueue ==
    [queue |-> <<>>, dirty |-> {}, processing |-> {}, shuttingDown |-> FALSE,
     waiting |-> {}, failures |-> [k \in AllKeys |-> 0],
     delay |-> [k \in AllKeys |-> 0]]

\* ---------------------------------------------------------------- Init
InitCommon ==
    /\ ctxDone = FALSE
    /\ runPc = "NotStarted"
    /\ listed = FALSE
    /\ hasSynced = FALSE
    /\ store = [o \in EveryObject |-> NoObject]
    /\ events = {}
    /\ envBudget = MaxEnvEvents
    /\ errBudget = MaxErrors
    /\ queue = NewQueue
    /\ wpc = [w \in Workers |-> "get"]
    /\ wkey = [w \in Workers |-> NoKey]
    /\ wfetch = [w \in Workers |-> "none"]
    /\ wobj = [w \in Workers |-> NilReplicas]
    /\ wstale = [w \in Workers |-> FALSE]
    /\ wcalls = [w \in Workers |-> 0]
    /\ wwritten = [w \in Workers |-> NilReplicas]
    /\ werr = [w \in Workers |-> FALSE]
    /\ cr = NoReconcile

\* client-go-project's main: NewController, then ctrl.Run(ctx).
Init == program = "client-go" /\ InitCommon /\ trial = NoTrial

\* Either main package is the one started.
InitBoth ==
    /\ program \in {"client-go", "controller-runtime"}
    /\ InitCommon
    /\ trial = NoTrial

\* ------------------------------------------------- the API server's clients
\* The informer's watch is open: it has listed and has not been stopped.
Watching == listed /\ ~ctxDone

\* The informer factory made as if without its namespace option.
WatchedAnyNamespace(ns) == TRUE

\* informers.WithNamespace("test"): the namespace the informer lists and
\* watches.
WatchedNamespace(ns) == ns = TestNamespace

\* The watch reports a change of o, when the watch is open; the informer
\* watches namespace "test" only (informers.WithNamespace("test")).
Notify(type, o, tomb) ==
    IF Watching /\ WatchedNamespace(o.namespace)
    THEN events \cup {[type |-> type, obj |-> o, tomb |-> tomb]}
    ELSE events

\* The deployment a worker's key names.
WorkerObject(w) ==
    LET s == SplitMetaNamespaceKey(wkey[w])
    IN  Deployment(s.namespace, s.name)

\* A write to o makes the copy a worker fetched before it stale.
MarkStale(o, writer) ==
    [w \in Workers |->
        IF w # writer /\ wpc[w] = "update" /\ WorkerObject(w) = o
        THEN TRUE ELSE wstale[w]]

\* Another client creates deployment o with r replicas.
EnvCreate(o, r) ==
    /\ envBudget > 0
    /\ store[o] = NoObject
    /\ store' = [store EXCEPT ![o] = r]
    /\ events' = Notify("add", o, FALSE)
    /\ envBudget' = envBudget - 1
    /\ wstale' = MarkStale(o, 0)
    /\ cr' = [cr EXCEPT !.stale = @ \/ (cr.pc = "update" /\ cr.req = o)]
    /\ UNCHANGED <<runVars, errBudget, queue, wpc, wkey, wfetch, wobj,
                   wcalls, wwritten, werr>>

\* Another client scales deployment o to r replicas.
EnvUpdate(o, r) ==
    /\ envBudget > 0
    /\ store[o] # NoObject
    /\ store[o] # r
    /\ store' = [store EXCEPT ![o] = r]
    /\ events' = Notify("update", o, FALSE)
    /\ envBudget' = envBudget - 1
    /\ wstale' = MarkStale(o, 0)
    /\ cr' = [cr EXCEPT !.stale = @ \/ (cr.pc = "update" /\ cr.req = o)]
    /\ UNCHANGED <<runVars, errBudget, queue, wpc, wkey, wfetch, wobj,
                   wcalls, wwritten, werr>>

\* Another client deletes deployment o; the informer reports it with the
\* last known object, or with a tombstone when it missed the delete.
EnvDelete(o, tomb) ==
    /\ envBudget > 0
    /\ store[o] # NoObject
    /\ store' = [store EXCEPT ![o] = NoObject]
    /\ events' = Notify("delete", o, tomb)
    /\ envBudget' = envBudget - 1
    /\ wstale' = MarkStale(o, 0)
    /\ cr' = [cr EXCEPT !.stale = @ \/ (cr.pc = "update" /\ cr.req = o)]
    /\ UNCHANGED <<runVars, errBudget, queue, wpc, wkey, wfetch, wobj,
                   wcalls, wwritten, werr>>

\* The caller of Run cancels the context.
Cancel ==
    /\ ~ctxDone
    /\ ctxDone' = TRUE
    /\ UNCHANGED <<trial, program, runPc, listed, hasSynced, envVars, queue,
                   workerVars, cr>>

\* ------------------------------------------------------------ informer
\* The informer's initial list: one add notification per deployment of
\* namespace "test" (informers.WithNamespace("test")).
InformerList ==
    /\ runPc # "NotStarted"
    /\ ~listed
    /\ ~ctxDone
    /\ listed' = TRUE
    /\ events' = events \cup
           {[type |-> "add", obj |-> o, tomb |-> FALSE] :
               o \in {x \in EveryObject :
                         store[x] # NoObject
                             /\ WatchedNamespace(x.namespace)}}
    /\ UNCHANGED <<trial, program, ctxDone, runPc, hasSynced, store, envBudget,
                   errBudget, queue, workerVars, cr>>

\* The informer reports its cache synchronized.
InformerSync ==
    /\ listed
    /\ ~hasSynced
    /\ ~ctxDone
    /\ hasSynced' = TRUE
    /\ UNCHANGED <<trial, program, ctxDone, runPc, listed, envVars, queue,
                   workerVars, cr>>

\* AddFunc ignoring what the informer delivers before it has synchronized.
AddFuncAfterSync(e) ==
    /\ e \in events
    /\ e.type = "add"
    /\ LET k == MetaNamespaceKeyFunc(e)
       IN  queue' = IF ~k.err /\ hasSynced THEN Add(queue, k.key) ELSE queue
    /\ events' = events \ {e}
    /\ UNCHANGED <<runVars, store, envBudget, errBudget, workerVars, cr>>

\* AddFunc: the key of the object is added to the queue.
AddFunc(e) ==
    /\ e \in events
    /\ e.type = "add"
    /\ LET k == MetaNamespaceKeyFunc(e)
       IN  queue' = IF ~k.err THEN Add(queue, k.key) ELSE queue
    /\ events' = events \ {e}
    /\ UNCHANGED <<runVars, store, envBudget, errBudget, workerVars, cr>>

\* UpdateFunc that only consumes the notification.
UpdateFuncDropped(e) ==
    /\ e \in events
    /\ e.type = "update"
    /\ events' = events \ {e}
    /\ UNCHANGED <<runVars, store, envBudget, errBudget, queue, workerVars,
                   cr>>

\* UpdateFunc: the key of the new object is added to the queue.
UpdateFunc(e) ==
    /\ e \in events
    /\ e.type = "update"
    /\ LET k == MetaNamespaceKeyFunc(e)
       IN  queue' = IF ~k.err THEN Add(queue, k.key) ELSE queue
    /\ events' = events \ {e}
    /\ UNCHANGED <<runVars, store, envBudget, errBudget, workerVars, cr>>

\* DeleteFunc: the key of the payload is added to the queue.
DeleteFunc(e) ==
    /\ e \in events
    /\ e.type = "delete"
    /\ LET k == MetaNamespaceKeyFunc(e)
       IN  queue' = IF ~k.err THEN Add(queue, k.key) ELSE queue
    /\ events' = events \ {e}
    /\ UNCHANGED <<runVars, store, envBudget, errBudget, workerVars, cr>>

\* The delay of a rate limited item has elapsed: the queue adds it.
DelayElapsed(k) ==
    /\ k \in queue.waiting
    /\ queue' = Add([queue EXCEPT !.waiting = @ \ {k}, !.delay[k] = 0], k)
    /\ UNCHANGED <<runVars, envVars, workerVars, cr>>

\* ----------------------------------------------------------------- Run
\* Run up to "go deploymentInformer.Run(ctx.Done())": the handlers are
\* registered and the informer is started.
RunStart ==
    /\ program = "client-go"
    /\ runPc = "NotStarted"
    /\ runPc' = "SyncingCache"
    /\ UNCHANGED <<trial, program, ctxDone, listed, hasSynced, envVars, queue,
                   workerVars, cr>>

\* Run going on to its loop whatever WaitForCacheSync answered.
WaitForCacheSyncUnchecked ==
    /\ runPc = "SyncingCache"
    /\ hasSynced \/ ctxDone
    /\ runPc' = "Running"
    /\ UNCHANGED <<trial, program, ctxDone, listed, hasSynced, envVars, queue,
                   workerVars, cr>>

\* cache.WaitForCacheSync(ctx.Done(), HasSynced), and what Run does with
\* its answer.
WaitForCacheSync ==
    /\ runPc = "SyncingCache"
    /\ \/ hasSynced /\ runPc' = "Running"
       \/ ctxDone /\ runPc' = "ReturnedErr"
    /\ UNCHANGED <<trial, program, ctxDone, listed, hasSynced, envVars, queue,
                   workerVars, cr>>

\* ---------------------------------------------------------- worker loop
ResetLocals(w) ==
    /\ wkey' = [wkey EXCEPT ![w] = NoKey]
    /\ wfetch' = [wfetch EXCEPT ![w] = "none"]
    /\ wobj' = [wobj EXCEPT ![w] = NilReplicas]
    /\ wstale' = [wstale EXCEPT ![w] = FALSE]
    /\ wcalls' = [wcalls EXCEPT ![w] = 0]
    /\ wwritten' = [wwritten EXCEPT ![w] = NilReplicas]
    /\ werr' = [werr EXCEPT ![w] = FALSE]

\* processNextItem calling Done at once instead of deferring it.
ProcessNextItem_GetDoneNow(w) ==
    /\ runPc = "Running"
    /\ wpc[w] = "get"
    /\ GetReady(queue)
    /\ LET g == Get(queue)
       IN  /\ queue' = IF g.shutdown THEN g.q ELSE Done(g.q, g.item)
           /\ wkey' = [wkey EXCEPT ![w] = g.item]
           /\ wpc' = [wpc EXCEPT ![w] =
                        IF g.shutdown THEN "exited" ELSE "processItem"]
           /\ runPc' = IF g.shutdown /\ w = RunWorker
                       THEN "ReturnedNil" ELSE runPc
    /\ UNCHANGED <<trial, program, ctxDone, listed, hasSynced, envVars, wfetch,
                   wobj, wstale, wcalls, wwritten, werr, cr>>

\* processNextItem: "key, quit := c.queue.Get()", and the return when the
\* queue is shut down, which ends Run's loop.
ProcessNextItem_Get(w) ==
    /\ runPc = "Running"
    /\ wpc[w] = "get"
    /\ GetReady(queue)
    /\ LET g == Get(queue)
       IN  /\ queue' = g.q
           /\ wkey' = [wkey EXCEPT ![w] = g.item]
           /\ wpc' = [wpc EXCEPT ![w] =
                        IF g.shutdown THEN "exited" ELSE "processItem"]
           /\ runPc' = IF g.shutdown /\ w = RunWorker
                       THEN "ReturnedNil" ELSE runPc
    /\ UNCHANGED <<trial, program, ctxDone, listed, hasSynced, envVars, wfetch,
                   wobj, wstale, wcalls, wwritten, werr, cr>>

\* processItem up to the comparison: the key is split and the deployment
\* is fetched from the API server; notFoundOk says whether a NotFound
\* answer is a success, and the deployment is scaled when its replica count
\* is below the threshold.
ProcessItem_GetWith(w, notFoundOk, threshold) ==
    /\ wpc[w] = "processItem"
    /\ LET s == SplitMetaNamespaceKey(wkey[w])
           o == Deployment(s.namespace, s.name)
           known == ~s.err /\ o \in EveryObject /\ store[o] # NoObject
           replicas == IF store[o] = NilReplicas THEN 0 ELSE store[o]
       IN  IF s.err
           THEN /\ wfetch' = [wfetch EXCEPT ![w] = "badkey"]
                /\ werr' = [werr EXCEPT ![w] = TRUE]
                /\ wpc' = [wpc EXCEPT ![w] = "result"]
                /\ UNCHANGED <<wobj, errBudget>>
           ELSE \/ /\ ctxDone \/ errBudget > 0
                   /\ errBudget' = IF ctxDone THEN errBudget
                                   ELSE errBudget - 1
                   /\ wfetch' = [wfetch EXCEPT ![w] = "error"]
                   /\ werr' = [werr EXCEPT ![w] = TRUE]
                   /\ wpc' = [wpc EXCEPT ![w] = "result"]
                   /\ UNCHANGED wobj
                \/ /\ ~ctxDone
                   /\ ~known
                   /\ wfetch' = [wfetch EXCEPT ![w] = "notfound"]
                   /\ werr' = [werr EXCEPT ![w] = ~notFoundOk]
                   /\ wpc' = [wpc EXCEPT ![w] = "result"]
                   /\ UNCHANGED <<wobj, errBudget>>
                \/ /\ ~ctxDone
                   /\ known
                   /\ wfetch' = [wfetch EXCEPT ![w] = "ok"]
                   /\ wobj' = [wobj EXCEPT ![w] = store[o]]
                   /\ werr' = [werr EXCEPT ![w] = FALSE]
                   /\ wpc' = [wpc EXCEPT ![w] =
                                IF replicas < threshold
                                THEN "update" ELSE "result"]
                   /\ UNCHANGED errBudget
    /\ UNCHANGED <<runVars, store, events, envBudget, queue, wkey, wstale,
                   wcalls, wwritten, cr>>

\* processItem returning the fetch error without the IsNotFound check.
ProcessItem_GetNotFoundFails(w) ==
    ProcessItem_GetWith(w, FALSE, DesiredReplicas)

\* processItem scaling a deployment that already has 2 replicas (the
\* comparison written "replicas <= 2").
ProcessItem_GetScalesEqual(w) ==
    ProcessItem_GetWith(w, TRUE, DesiredReplicas + 1)

\* processItem reading the deployment from the informer's cache, whose
\* copy may lag behind the API server.
ProcessItem_GetFromCache(w) ==
    /\ wpc[w] = "processItem"
    /\ ~ctxDone
    /\ \E v \in ReplicaValues :
          /\ wfetch' = [wfetch EXCEPT ![w] = "ok"]
          /\ wobj' = [wobj EXCEPT ![w] = v]
          /\ werr' = [werr EXCEPT ![w] = FALSE]
          /\ wpc' = [wpc EXCEPT ![w] =
                       IF (IF v = NilReplicas THEN 0 ELSE v) < DesiredReplicas
                       THEN "update" ELSE "result"]
    /\ UNCHANGED <<runVars, envVars, queue, wkey, wstale, wcalls, wwritten,
                   cr>>

\* processItem from its start to the comparison "replicas < 2": a NotFound
\* answer is logged and is a success, any other error is returned, and an
\* unset count reads 0.
ProcessItem_Get(w) == ProcessItem_GetWith(w, TRUE, DesiredReplicas)

\* processItem's scaling branch: a copy of the fetched deployment with
\* newReplicas replicas is passed to Update, whose error is processItem's
\* result.
ProcessItem_UpdateWith(w, newReplicas) ==
    /\ wpc[w] = "update"
    /\ wcalls' = [wcalls EXCEPT ![w] = @ + 1]
    /\ wwritten' = [wwritten EXCEPT ![w] = newReplicas]
    /\ wpc' = [wpc EXCEPT ![w] = "result"]
    /\ LET o == WorkerObject(w)
       IN  \/ /\ ctxDone \/ errBudget > 0
              /\ errBudget' = IF ctxDone THEN errBudget ELSE errBudget - 1
              /\ werr' = [werr EXCEPT ![w] = TRUE]
              /\ UNCHANGED <<store, events, wstale>>
           \/ /\ ~ctxDone
              /\ store[o] = NoObject \/ wstale[w]
              /\ werr' = [werr EXCEPT ![w] = TRUE]
              /\ UNCHANGED <<store, events, errBudget, wstale>>
           \/ /\ ~ctxDone
              /\ store[o] # NoObject /\ ~wstale[w]
              /\ store' = [store EXCEPT ![o] = newReplicas]
              /\ events' = Notify("update", o, FALSE)
              /\ wstale' = MarkStale(o, w)
              /\ werr' = [werr EXCEPT ![w] = FALSE]
              /\ UNCHANGED errBudget
    /\ UNCHANGED <<runVars, envBudget, queue, wkey, wfetch, wobj, cr>>

\* The scaling branch adding one replica instead of setting 2.
ProcessItem_UpdateIncrement(w) ==
    ProcessItem_UpdateWith(w,
        (IF wobj[w] = NilReplicas THEN 0 ELSE wobj[w]) + 1)

\* "newReplicas := int32(2)" and the Update call.
ProcessItem_Update(w) == ProcessItem_UpdateWith(w, DesiredReplicas)

\* processNextItem logging the error without AddRateLimited.
ProcessNextItem_ResultLogOnly(w) ==
    /\ wpc[w] = "result"
    /\ queue' = IF werr[w] THEN queue ELSE Forget(queue, wkey[w])
    /\ wpc' = [wpc EXCEPT ![w] = "done"]
    /\ UNCHANGED <<runVars, envVars, wkey, wfetch, wobj, wstale, wcalls,
                   wwritten, werr, cr>>

\* processNextItem calling Done before it looks at processItem's result.
ProcessNextItem_ResultDoneFirst(w) ==
    /\ wpc[w] = "result"
    /\ queue' = IF werr[w]
                THEN AddRateLimited(Done(queue, wkey[w]), wkey[w])
                ELSE Forget(Done(queue, wkey[w]), wkey[w])
    /\ wpc' = [wpc EXCEPT ![w] = "done"]
    /\ UNCHANGED <<runVars, envVars, wkey, wfetch, wobj, wstale, wcalls,
                   wwritten, werr, cr>>

\* processNextItem without the "return true" of its error branch: Forget is
\* called after AddRateLimited too.
ProcessNextItem_ResultFallsThrough(w) ==
    /\ wpc[w] = "result"
    /\ queue' = IF werr[w]
                THEN Forget(AddRateLimited(queue, wkey[w]), wkey[w])
                ELSE Forget(queue, wkey[w])
    /\ wpc' = [wpc EXCEPT ![w] = "done"]
    /\ UNCHANGED <<runVars, envVars, wkey, wfetch, wobj, wstale, wcalls,
                   wwritten, werr, cr>>

\* processNextItem without the Forget of a success.
ProcessNextItem_ResultNoForget(w) ==
    /\ wpc[w] = "result"
    /\ queue' = IF werr[w] THEN AddRateLimited(queue, wkey[w]) ELSE queue
    /\ wpc' = [wpc EXCEPT ![w] = "done"]
    /\ UNCHANGED <<runVars, envVars, wkey, wfetch, wobj, wstale, wcalls,
                   wwritten, werr, cr>>

\* processNextItem after processItem returned: AddRateLimited on an error,
\* Forget otherwise.
ProcessNextItem_Result(w) ==
    /\ wpc[w] = "result"
    /\ queue' = IF werr[w] THEN AddRateLimited(queue, wkey[w])
                ELSE Forget(queue, wkey[w])
    /\ wpc' = [wpc EXCEPT ![w] = "done"]
    /\ UNCHANGED <<runVars, envVars, wkey, wfetch, wobj, wstale, wcalls,
                   wwritten, werr, cr>>

\* processNextItem calling Done after Forget only, not deferred: the error
\* branch returns without it.
ProcessNextItem_DoneOnSuccess(w) ==
    /\ wpc[w] = "done"
    /\ queue' = IF werr[w] THEN queue ELSE Done(queue, wkey[w])
    /\ wpc' = [wpc EXCEPT ![w] = "get"]
    /\ ResetLocals(w)
    /\ UNCHANGED <<runVars, envVars, cr>>

\* processNextItem returns: the deferred c.queue.Done(key) runs.
ProcessNextItem_Done(w) ==
    /\ wpc[w] = "done"
    /\ queue' = Done(queue, wkey[w])
    /\ wpc' = [wpc EXCEPT ![w] = "get"]
    /\ ResetLocals(w)
    /\ UNCHANGED <<runVars, envVars, cr>>

\* -------------------------------------------- controller-runtime program
goVars == <<runVars, queue, workerVars>>

\* SetupWithManager's event filter: CreateFunc, UpdateFunc and DeleteFunc
\* let an event through when its object is of namespace "test".
EventFilter(o) == o.namespace = TestNamespace

\* The manager's controller calls Reconcile with the request of an object
\* whose event passed the filter.
Reconcile_Start(o) ==
    /\ program = "controller-runtime"
    /\ cr.pc = "idle"
    /\ EventFilter(o)
    /\ cr' = [NoReconcile EXCEPT !.pc = "get", !.req = o]
    /\ UNCHANGED <<goVars, envVars>>

\* Reconcile from its start to the comparison "replicas < 2": r.Get reads
\* the manager's cache, whose copy v of the deployment may lag behind the
\* API server; a NotFound answer is logged and is a success, any other
\* error is returned, and an unset count reads 0.
Reconcile_Get ==
    /\ cr.pc = "get"
    /\ \/ /\ ctxDone \/ errBudget > 0
          /\ errBudget' = IF ctxDone THEN errBudget ELSE errBudget - 1
          /\ cr' = [cr EXCEPT !.fetch = "error", !.err = TRUE,
                              !.pc = "return"]
       \/ \E v \in ReplicaValues \cup {NoObject} :
             /\ ~ctxDone
             /\ v = store[cr.req] \/ envBudget < MaxEnvEvents
             /\ LET replicas == IF v = NilReplicas THEN 0 ELSE v
                IN  cr' = IF v = NoObject
                          THEN [cr EXCEPT !.fetch = "notfound",
                                          !.err = FALSE, !.pc = "return"]
                          ELSE [cr EXCEPT !.fetch = "ok", !.obj = v,
                                          !.stale = (v # store[cr.req]),
                                          !.pc = IF replicas < DesiredReplicas
                                                 THEN "update" ELSE "return"]
             /\ UNCHANGED errBudget
    /\ UNCHANGED <<goVars, store, events, envBudget>>

\* Reconcile's scaling branch: a copy of the fetched deployment with 2
\* replicas is passed to r.Update, whose error is Reconcile's result.
Reconcile_Update ==
    /\ cr.pc = "update"
    /\ \/ /\ ctxDone \/ errBudget > 0
          /\ errBudget' = IF ctxDone THEN errBudget ELSE errBudget - 1
          /\ cr' = [cr EXCEPT !.calls = @ + 1, !.written = DesiredReplicas,
                              !.err = TRUE, !.pc = "return"]
          /\ UNCHANGED store
       \/ /\ ~ctxDone
          /\ store[cr.req] = NoObject \/ cr.stale
          /\ cr' = [cr EXCEPT !.calls = @ + 1, !.written = DesiredReplicas,
                              !.err = TRUE, !.pc = "return"]
          /\ UNCHANGED <<store, errBudget>>
       \/ /\ ~ctxDone
          /\ store[cr.req] # NoObject /\ ~cr.stale
          /\ cr' = [cr EXCEPT !.calls = @ + 1, !.written = DesiredReplicas,
                              !.err = FALSE, !.pc = "return"]
          /\ store' = [store EXCEPT ![cr.req] = DesiredReplicas]
          /\ UNCHANGED errBudget
    /\ UNCHANGED <<goVars, events, envBudget>>

\* Reconcile returns ctrl.Result{} and its error to the manager.
Reconcile_Return ==
    /\ cr.pc = "return"
    /\ cr' = NoReconcile
    /\ UNCHANGED <<goVars, envVars>>

Reconciler ==
    \/ \E o \in ValidObjects : Reconcile_Start(o)
    \/ Reconcile_Get
    \/ Reconcile_Update
    \/ Reconcile_Return

\* ------------------------------- the reconcile functions, call by call
\* What the accessor can answer to a fetch: a deployment (with its replica
\* count), NotFound, or another error; and to an Update: ok, a conflict,
\* or another error.
FetchResponses ==
    [kind : {"ok"}, replicas : ReplicaValues]
        \cup [kind : {"notfound", "error"}, replicas : {NilReplicas}]

UpdateResponses == {"ok", "conflict", "error"}

GetCall(ns, n) ==
    [op |-> "Get", namespace |-> ns, name |-> n, replicas |-> NilReplicas]

UpdateCall(ns, n, r) ==
    [op |-> "Update", namespace |-> ns, name |-> n, replicas |-> r]

\* processItem swallowing the error of Update.
processItemIgnoresUpdateError(key, fetched, updated) ==
    LET s == SplitMetaNamespaceKey(key)
        get == GetCall(s.namespace, s.name)
        replicas == IF fetched.replicas = NilReplicas
                    THEN 0 ELSE fetched.replicas
    IN  IF s.err THEN [done |-> TRUE, calls |-> <<>>, err |-> TRUE]
        ELSE IF fetched.kind = "notfound"
        THEN [done |-> TRUE, calls |-> <<get>>, err |-> FALSE]
        ELSE IF fetched.kind = "error"
        THEN [done |-> TRUE, calls |-> <<get>>, err |-> TRUE]
        ELSE IF replicas < DesiredReplicas
        THEN [done |-> TRUE,
              calls |-> <<get, UpdateCall(s.namespace, s.name,
                                          DesiredReplicas)>>,
              err |-> FALSE]
        ELSE [done |-> TRUE, calls |-> <<get>>, err |-> FALSE]

\* Controller.processItem(ctx, key) as a function of the accessor's
\* answers: the calls it issues, in order, and whether it returns an error.
processItem(key, fetched, updated) ==
    LET s == SplitMetaNamespaceKey(key)
        get == GetCall(s.namespace, s.name)
        replicas == IF fetched.replicas = NilReplicas
                    THEN 0 ELSE fetched.replicas
    IN  IF s.err THEN [done |-> TRUE, calls |-> <<>>, err |-> TRUE]
        ELSE IF fetched.kind = "notfound"
        THEN [done |-> TRUE, calls |-> <<get>>, err |-> FALSE]
        ELSE IF fetched.kind = "error"
        THEN [done |-> TRUE, calls |-> <<get>>, err |-> TRUE]
        ELSE IF replicas < DesiredReplicas
        THEN [done |-> TRUE,
              calls |-> <<get, UpdateCall(s.namespace, s.name,
                                          DesiredReplicas)>>,
              err |-> updated # "ok"]
        ELSE [done |-> TRUE, calls |-> <<get>>, err |-> FALSE]

\* DeploymentReconciler.Reconcile(ctx, req) as a function of the accessor's
\* answers: client.IgnoreNotFound(err) != nil is the case of another error.
Reconcile(req, fetched, updated) ==
    LET get == GetCall(req.namespace, req.name)
        replicas == IF fetched.replicas # NilReplicas
                    THEN fetched.replicas ELSE 0
    IN  IF fetched.kind # "ok"
        THEN IF fetched.kind # "notfound"
             THEN [done |-> TRUE, calls |-> <<get>>, err |-> TRUE]
             ELSE [done |-> TRUE, calls |-> <<get>>, err |-> FALSE]
        ELSE IF replicas < DesiredReplicas
        THEN IF updated # "ok"
             THEN [done |-> TRUE,
                   calls |-> <<get, UpdateCall(req.namespace, req.name,
                                               DesiredReplicas)>>,
                   err |-> TRUE]
             ELSE [done |-> TRUE,
                   calls |-> <<get, UpdateCall(req.namespace, req.name,
                                               DesiredReplicas)>>,
                   err |-> FALSE]
        ELSE [done |-> TRUE, calls |-> <<get>>, err |-> FALSE]

\* A trial: one deployment, one answer to the fetch, one to the Update.
InitTrial ==
    /\ program = "both"
    /\ InitCommon
    /\ trial \in [obj : AllObjects, fetched : FetchResponses,
                   updated : UpdateResponses, client : {NoTrial.client},
                   runtime : {NoTrial.runtime}]

\* processItem is called with the key of the deployment.
Trial_processItem ==
    /\ ~trial.client.done
    /\ trial' = [trial EXCEPT !.client =
                    processItem(ObjectNameString(trial.obj),
                                trial.fetched, trial.updated)]
    /\ UNCHANGED <<program, ctxDone, runPc, listed, hasSynced, envVars,
                   queue, workerVars, cr>>

\* Reconcile is called with the request of the deployment.
Trial_Reconcile ==
    /\ ~trial.runtime.done
    /\ trial' = [trial EXCEPT !.runtime =
                    Reconcile(trial.obj, trial.fetched, trial.updated)]
    /\ UNCHANGED <<program, ctxDone, runPc, listed, hasSynced, envVars,
                   queue, workerVars, cr>>

NextTrial == Trial_processItem \/ Trial_Reconcile

SpecTrial == InitTrial /\ [][NextTrial]_vars

\* ---------------------------------------------------------------- Next
Worker(w) ==
    \/ ProcessNextItem_Get(w)
    \/ ProcessItem_Get(w)
    \/ ProcessItem_Update(w)
    \/ ProcessNextItem_Result(w)
    \/ ProcessNextItem_Done(w)

Informer ==
    \/ InformerList
    \/ InformerSync
    \/ \E e \in events : AddFunc(e)
    \/ \E e \in events : UpdateFunc(e)
    \/ \E e \in events : DeleteFunc(e)

Env(objs) ==
    \/ \E o \in objs, r \in ReplicaValues : EnvCreate(o, r) \/ EnvUpdate(o, r)
    \/ \E o \in objs, tomb \in BOOLEAN : EnvDelete(o, tomb)
    \/ Cancel

Timer == \E k \in AllKeys : DelayElapsed(k)

RunSteps == RunStart \/ WaitForCacheSync

\* The program as it is: Run's one worker loop, deployments with valid names.
Next ==
    \/ RunSteps
    \/ Informer
    \/ Timer
    \/ Worker(RunWorker)
    \/ Env(ValidObjects)

Spec == Init /\ [][Next]_vars

\* The same program watching a source that also delivers a name with "/".
NextAnyName ==
    \/ RunSteps
    \/ Informer
    \/ Timer
    \/ Worker(RunWorker)
    \/ Env(AllObjects)

SpecAnyName == Init /\ [][NextAnyName]_vars

\* The worker loops blocked in Get are interchangeable: the one that the
\* queue wakes is taken to be the lowest-numbered of them.
FirstWaiting(w) == wpc[w] = "get" => \A v \in 1..(w - 1) : wpc[v] # "get"

\* processNextItem run by a pool of worker loops on the one queue.
NextPool ==
    \/ RunSteps
    \/ Informer
    \/ Timer
    \/ \E w \in Workers : FirstWaiting(w) /\ Worker(w)
    \/ Env(ValidObjects)

SpecPool == Init /\ [][NextPool]_vars

\* Either program: the client-go controller, or Reconcile under the manager.
NextBoth == Next \/ Reconciler

SpecBoth == InitBoth /\ [][NextBoth]_vars

\* Either program beside a deployment of another namespace.
NamespaceObjects == {Deployment(TestNamespace, <<"a">>), OtherObject}

NextNamespaces ==
    \/ RunSteps
    \/ Informer
    \/ Timer
    \/ Worker(RunWorker)
    \/ Env(NamespaceObjects)
    \/ \E o \in NamespaceObjects : Reconcile_Start(o)
    \/ Reconcile_Get
    \/ Reconcile_Update
    \/ Reconcile_Return

SpecNamespaces == InitBoth /\ [][NextNamespaces]_vars

\* Scheduling: Run, the informer's goroutines and the worker loop each keep
\* running, and every delay elapses; other clients and the caller of Run
\* are under no obligation.
Fairness ==
    /\ WF_vars(RunSteps)
    /\ WF_vars(Informer)
    /\ WF_vars(Worker(RunWorker))
    /\ \A k \in AllKeys : WF_vars(DelayElapsed(k))

FairSpec == Spec /\ Fairness

\* ---------------------------------------------------------------- claims
\* A worker holds its key from the Get that returned it to its Done.
Holding(w) == wpc[w] \in {"processItem", "update", "result", "done"}

\* A worker is inside processItem (the reconcile invocation).
Reconciling(w) == wpc[w] \in {"processItem", "update"}

\* Deployment o exists with an unset replica count or one below 2.
BelowDesired(o) == store[o] # NoObject /\ store[o] < DesiredReplicas

\* C1: once the context is cancelled while Run is in its worker loop, Run
\* eventually returns nil (the queue is shut down and the loop ends).
C1_CancelLeadsToReturn ==
    (ctxDone /\ runPc = "Running") ~> (runPc = "ReturnedNil")

\* C2: two worker loops never hold the same key at once: between the Get
\* that returned a key and its Done the key is in the processing set, is
\* not queued, and no other worker holds it.
C2_NoConcurrentSameKey ==
    \A w1 \in Workers :
        Holding(w1) =>
            /\ wkey[w1] \in queue.processing
            /\ wkey[w1] \notin Range(queue.queue)
            /\ \A w2 \in Workers \ {w1} : Holding(w2) => wkey[w2] # wkey[w1]

\* A key is notified again while one worker reconciles it, and another
\* worker waits in Get for an item.
C2_Witness ==
    \E w1, w2 \in Workers :
        /\ Reconciling(w1)
        /\ wkey[w1] \in queue.dirty
        /\ wpc[w2] = "get"
        /\ runPc = "Running"

\* C3: a failed reconcile is re-enqueued through AddRateLimited, and unless
\* the context is cancelled the controller always comes back to a state
\* where no watched deployment is below 2 replicas: every deployment below
\* 2 replicas is eventually at 2 or more (or gone).
C3_EventuallyScaled ==
    /\ [][\A w \in Workers :
            (wpc[w] = "result" /\ werr[w] /\ wpc'[w] = "done")
                => wkey[w] \in queue'.waiting]_vars
    /\ []<>(ctxDone \/ \A o \in ValidObjects : ~BelowDesired(o))

\* A reconcile that had failed before has now scaled its deployment.
C3_Witness ==
    /\ wpc[RunWorker] = "result"
    /\ ~werr[RunWorker]
    /\ wcalls[RunWorker] = 1
    /\ queue.failures[wkey[RunWorker]] > 0
    /\ store[WorkerObject(RunWorker)] = DesiredReplicas

\* An event for key k is delivered to its handler in this step.
Delivered(k) ==
    \E e \in events :
        /\ e \notin events'
        /\ ~MetaNamespaceKeyFunc(e).err
        /\ MetaNamespaceKeyFunc(e).key = k

\* C4: a key is queued at most once however many notifications arrived for
\* it, and a delivered notification leaves it pending exactly once.
C4_Dedup ==
    /\ [](\A k \in AllKeys : Count(queue.queue, k) <= 1)
    /\ [][\A k \in AllKeys :
            Delivered(k) =>
                /\ k \in queue'.dirty
                /\ Count(queue'.queue, k) =
                      IF k \in queue'.processing THEN 0 ELSE 1]_vars

\* A key is queued and a further notification for it is to be delivered.
C4_Witness ==
    \E e \in events :
        /\ e.type = "update"
        /\ ObjectNameString(e.obj) \in Range(queue.queue)

C6_MalformedKeyDropped ==
    \A k \in AllKeys : SplitMetaNamespaceKey(k).err => k \notin queue.waiting

\* C10: no key is dequeued before the informer has synchronized, and a
\* cancellation before synchronization leaves Run with only the startup
\* error to return.
C10_WorkersAfterSync ==
    /\ (runPc \in {"Running", "ReturnedNil"} => hasSynced)
    /\ (\E w \in Workers : wpc[w] # "get") => hasSynced
    /\ (ctxDone /\ ~hasSynced) =>
          /\ runPc \in {"NotStarted", "SyncingCache", "ReturnedErr"}
          /\ \A w \in Workers : wpc[w] = "get"
    /\ runPc = "ReturnedErr" => ctxDone

\* Cancelled before synchronization, Run has returned the startup error
\* while a notification delivered during the wait is still queued.
C10_Witness ==
    /\ runPc = "ReturnedErr"
    /\ ~hasSynced
    /\ Len(queue.queue) > 0

\* processItem has returned to processNextItem.
Returned(w) == wpc[w] \in {"result", "done"}

\* C7: a fetch that answers NotFound is a success without an Update call,
\* and processNextItem then calls Forget and schedules no retry; any other
\* fetch error is a failure.
C7_NotFoundIsSuccess ==
    /\ [](\A w \in Workers :
            /\ wfetch[w] = "notfound"
                  => (Returned(w) /\ ~werr[w] /\ wcalls[w] = 0)
            /\ wfetch[w] = "error"
                  => (Returned(w) /\ werr[w] /\ wcalls[w] = 0))
    /\ [](/\ cr.fetch = "notfound"
              => (cr.pc = "return" /\ ~cr.err /\ cr.calls = 0)
          /\ cr.fetch = "error"
              => (cr.pc = "return" /\ cr.err /\ cr.calls = 0))
    /\ [][\A w \in Workers :
            (wfetch[w] = "notfound" /\ wpc[w] = "result" /\ wpc'[w] = "done")
                => /\ queue'.failures[wkey[w]] = 0
                   /\ queue'.waiting = queue.waiting
                   /\ store' = store]_vars

\* The deployment of a key that had failed is gone, and the fetch of its
\* retry has answered NotFound.
C7_Witness ==
    /\ wfetch[RunWorker] = "notfound"
    /\ wpc[RunWorker] = "result"
    /\ queue.failures[wkey[RunWorker]] > 0

\* C8: the reconcile of a deployment that has 2 replicas or more issues no
\* Update and succeeds.
C8_ConvergedNoWrite ==
    /\ \A w \in Workers :
         (wfetch[w] = "ok" /\ wobj[w] >= DesiredReplicas)
             => (Returned(w) /\ wcalls[w] = 0 /\ ~werr[w])
    /\ (cr.fetch = "ok" /\ cr.obj >= DesiredReplicas)
          => (cr.pc = "return" /\ cr.calls = 0 /\ ~cr.err)

\* Reconcile is about to return for a deployment fetched with exactly 2
\* replicas.
C8_Witness ==
    /\ cr.pc = "return"
    /\ cr.fetch = "ok"
    /\ cr.obj = DesiredReplicas

\* C9: the reconcile of a deployment whose count is unset or below 2 issues
\* exactly one Update, for the fetched deployment with 2 replicas; an Update
\* that succeeds leaves the deployment at 2 replicas, and a reconcile that
\* fetches it with 2 replicas issues no Update.
C9_ScalesOnce ==
    /\ [](\A w \in Workers :
            /\ wcalls[w] <= 1
            /\ (wfetch[w] = "ok" /\ wobj[w] = DesiredReplicas)
                  => wcalls[w] = 0
            /\ (wfetch[w] = "ok" /\ wobj[w] < DesiredReplicas /\ Returned(w))
                  => (wcalls[w] = 1 /\ wwritten[w] = DesiredReplicas)
            /\ (wfetch[w] = "ok" /\ wobj[w] < DesiredReplicas)
                  => wpc[w] \in {"update", "result", "done"})
    /\ [](/\ cr.calls <= 1
          /\ (cr.fetch = "ok" /\ cr.obj < DesiredReplicas
                 /\ cr.pc = "return")
                => (cr.calls = 1 /\ cr.written = DesiredReplicas)
          /\ (cr.fetch = "ok" /\ cr.obj < DesiredReplicas)
                => cr.pc \in {"update", "return"})
    /\ [][(cr.pc = "update" /\ cr'.pc = "return")
            => IF cr'.err
               THEN store' = store
               ELSE store' = [store EXCEPT ![cr.req] = DesiredReplicas]]_vars
    /\ [][\A w \in Workers :
            (wpc[w] = "update" /\ wpc'[w] = "result")
                => IF werr'[w]
                   THEN store' = store
                   ELSE store' = [store EXCEPT
                                    ![WorkerObject(w)] = DesiredReplicas]]_vars

\* A deployment with an unset count has been scaled by one Update.
C9_Witness ==
    /\ wpc[RunWorker] = "result"
    /\ wfetch[RunWorker] = "ok"
    /\ wobj[RunWorker] = NilReplicas
    /\ wcalls[RunWorker] = 1
    /\ ~werr[RunWorker]
    /\ store[WorkerObject(RunWorker)] = DesiredReplicas

\* C11: processNextItem turns the result of processItem into one queue call,
\* AddRateLimited (and no Forget) for an error, Forget (and no
\* AddRateLimited) otherwise, and goes on to the next Get; an Update that
\* was rejected is not issued again in that invocation.
C11_OutcomeToQueue ==
    /\ [][\A w \in Workers :
            (wpc[w] = "result" /\ wpc'[w] # "result") =>
                /\ wpc'[w] = "done"
                /\ IF werr[w]
                   THEN /\ queue'.failures[wkey[w]] =
                              Min(queue.failures[wkey[w]] + 1, MaxFailures)
                        /\ wkey[w] \in queue'.waiting
                   ELSE /\ queue'.failures[wkey[w]] = 0
                        /\ queue'.waiting = queue.waiting
                        /\ queue'.delay = queue.delay]_vars
    /\ [][\A w \in Workers :
            (wpc[w] = "done" /\ wpc'[w] # "done") => wpc'[w] = "get"]_vars
    /\ [](\A w \in Workers :
            /\ wpc[w] # "exited"
            /\ wfetch[w] = "error" => werr[w]
            /\ (wcalls[w] = 1 /\ werr[w]) => Returned(w))

\* An Update rejected for a conflict has been answered with AddRateLimited.
C11_Witness ==
    /\ wpc[RunWorker] = "done"
    /\ werr[RunWorker]
    /\ wcalls[RunWorker] = 1
    /\ wkey[RunWorker] \in queue.waiting
    /\ ~ctxDone
    /\ errBudget = MaxErrors

\* C12: the delay AddRateLimited schedules for a key is base x 2^failures
\* capped at the ceiling, so it does not decrease from one failure to the
\* next; after a success the next failure's delay is the floor again; and
\* the counter and the delay of every other key are left alone.
C12_Backoff ==
    /\ [][\A k \in AllKeys :
            queue'.failures[k] # queue.failures[k] =>
                \E w \in Workers : wpc[w] = "result" /\ wkey[w] = k]_vars
    /\ [][\A w \in Workers :
            (wpc[w] = "result" /\ wpc'[w] = "done") =>
                LET k == wkey[w]
                IN  /\ werr[w] =>
                          /\ queue'.delay[k] =
                                Min(BaseDelay * 2 ^ queue.failures[k],
                                    MaxDelay)
                          /\ When(queue', k) >= queue'.delay[k]
                          /\ queue'.delay[k] >= BaseDelay
                    /\ ~werr[w] => When(queue', k) = BaseDelay
                    /\ \A j \in AllKeys \ {k} :
                          /\ queue'.failures[j] = queue.failures[j]
                          /\ queue'.delay[j] = queue.delay[j]]_vars

\* A key has failed until its delay reached the ceiling, while the other
\* key's counter is zero.
C12_Witness ==
    \E k \in AllKeys :
        /\ queue.failures[k] = MaxFailures
        /\ queue.delay[k] = MaxDelay
        /\ MaxDelay > BaseDelay
        /\ \E j \in AllKeys \ {k} :
              /\ queue.failures[j] = 0
              /\ j \in queue.processing

\* C13: every notification the informer delivers, a delete with a tombstone
\* payload included, leaves the key of its object pending in the queue, and
\* what is queued is a key.
C13_EveryNotificationAdds ==
    /\ [][\A e \in events :
            e \notin events' => ObjectNameString(e.obj) \in queue'.dirty]_vars
    /\ [](Range(queue.queue) \subseteq AllKeys)

\* The object an invocation passes to Update is a copy of the object it
\* fetched: the fetched object is left as it was fetched, and no Update is
\* issued without a fetch that answered an object.
WrittenIsCopyOfFetched ==
    /\ [][\A w \in Workers :
            (wpc[w] = "update" /\ wpc'[w] = "result") =>
                /\ wfetch[w] = "ok"
                /\ wobj'[w] = wobj[w]
                /\ wwritten'[w] = DesiredReplicas]_vars
    /\ [][(cr.pc = "update" /\ cr'.pc = "return") =>
            /\ cr.fetch = "ok"
            /\ cr'.obj = cr.obj
            /\ cr'.written = DesiredReplicas]_vars

\* processItem's fetch answers the deployment as the API server holds it.
WorkerFetchIsRemote ==
    [][\A w \in Workers :
         (wpc[w] = "processItem" /\ wfetch'[w] = "ok") =>
             wobj'[w] = store[WorkerObject(w)]]_vars

C15_DoneOncePerGet ==
    /\ [](queue.processing = {wkey[w] : w \in {v \in Workers : Holding(v)}})
    /\ [][\A w \in Workers :
            (Holding(w) /\ wpc'[w] \notin {"processItem", "update", "result",
                                            "done"}) =>
                /\ wpc[w] = "done"
                /\ wpc'[w] = "get"
                /\ wkey[w] \in queue.processing
                /\ wkey[w] \notin queue'.processing]_vars
    /\ [][\A k \in AllKeys :
            (k \in queue.processing /\ k \notin queue'.processing) =>
                \E w \in Workers : wpc[w] = "done" /\ wkey[w] = k]_vars

\* After the context was cancelled the worker has been through an
\* iteration for a key that does not split and one for a key whose fetch
\* failed, and is back in Get.
C15_Witness ==
    /\ wpc[RunWorker] = "get"
    /\ ctxDone
    /\ queue.failures[ObjectNameString(SlashObject)] > 0
    /\ \E o \in ValidObjects : queue.failures[ObjectNameString(o)] > 0
    /\ queue.processing = {}

\* C16 as claimed: when processNextItem calls Forget or AddRateLimited, Done
\* has already been called for the key of that iteration.
C16_DoneBeforeResult ==
    [][\A w \in Workers :
         (wpc[w] = "result" /\ wpc'[w] = "done") =>
             wkey[w] \notin queue.processing]_vars

\* C16 as amended: in each iteration Done is called after the Forget or
\* AddRateLimited call of that iteration, as the last queue call, on every
\* path: the key is still in the processing set after Forget or
\* AddRateLimited, and the step that removes it changes neither the failure
\* counters nor the waiting set.
C16_DoneAfterResult ==
    /\ [][\A w \in Workers :
            (wpc[w] = "result" /\ wpc'[w] = "done") =>
                /\ wkey[w] \in queue.processing
                /\ wkey[w] \in queue'.processing]_vars
    /\ [][\A w \in Workers :
            (wpc[w] = "done" /\ wpc'[w] = "get") =>
                /\ wkey[w] \in queue.processing
                /\ wkey[w] \notin queue'.processing
                /\ queue'.failures = queue.failures
                /\ queue'.waiting = queue.waiting]_vars

\* AddRateLimited has been called for a key that is still in the
\* processing set: the deferred Done has not run yet.
C16_Witness ==
    /\ wpc[RunWorker] = "done"
    /\ werr[RunWorker]
    /\ wkey[RunWorker] \in queue.waiting
    /\ wkey[RunWorker] \in queue.processing

\* C17 as claimed: given the same deployment (any key), the same answer to
\* the fetch and the same answer to the Update, processItem and Reconcile
\* issue the same accessor calls in the same order, write the same replica
\* count and return the same outcome.
C17_SameCallsAndOutcome ==
    (trial.client.done /\ trial.runtime.done) =>
        /\ trial.client.calls = trial.runtime.calls
        /\ trial.client.err = trial.runtime.err

\* C17 as amended: the same, for every key that splits into namespace and
\* name.
C17_SameForSplitKeys ==
    (/\ trial.client.done
     /\ trial.runtime.done
     /\ ~SplitMetaNamespaceKey(ObjectNameString(trial.obj)).err) =>
        /\ trial.client.calls = trial.runtime.calls
        /\ trial.client.err = trial.runtime.err

\* Both functions have fetched a deployment with an unset replica count
\* and had their Update rejected for a conflict.
C17_Witness ==
    /\ trial.client.done
    /\ trial.runtime.done
    /\ trial.fetched = [kind |-> "ok", replicas |-> NilReplicas]
    /\ trial.updated = "conflict"
    /\ Len(trial.client.calls) = 2
    /\ trial.client.calls[2].replicas = DesiredReplicas
    /\ trial.client.err

\* C18: a notification delivered before the informer has synchronized
\* leaves its key in the queue; a queued key leaves the queue only through
\* the Get of a worker, which runs after synchronization; and unless Run
\* returned the startup error no key stays in the queue for ever, so every
\* key queued early is dequeued and reconciled.
C18_EarlyKeysKept ==
    /\ [][\A k \in AllKeys :
            (Delivered(k) /\ ~hasSynced) => k \in Range(queue'.queue)]_vars
    /\ [][\A k \in AllKeys :
            (k \in Range(queue.queue) /\ k \notin Range(queue'.queue)) =>
                /\ hasSynced
                /\ \E w \in Workers :
                      /\ wpc[w] = "get"
                      /\ wpc'[w] = "processItem"
                      /\ wkey'[w] = k]_vars
    /\ \A k \in AllKeys :
          []<>(k \notin Range(queue.queue) \/ runPc = "ReturnedErr")

\* Run waits for the cache to synchronize while the keys of two
\* deployments of the initial list are already queued.
C18_Witness ==
    /\ runPc = "SyncingCache"
    /\ listed
    /\ ~hasSynced
    /\ ~ctxDone
    /\ Len(queue.queue) = 2

====
